---- MODULE Spec2Model ----
(***************************************************************************)
(* Model of enhanced-voice-typing.py: the capture thread, the hand-off     *)
(* queue, the pre-recording buffer, the segmentation loop of               *)
(* VoiceTyping.run, process_audio / type_text, and cleanup.                *)
(*                                                                         *)
(* A chunk is identified by the ordinal of the successful device read that *)
(* produced it (1, 2, 3, ...).  What the microphone hears is the input of  *)
(* a run: `runs` is a tuple of run lengths, alternately non-speech and     *)
(* speech, starting with non-speech; the VAD's verdict on chunk c is read  *)
(* off it.  Durations are kept in milliseconds so that the source's        *)
(* 1.5 s and 0.8 s stay integers.                                          *)
(***************************************************************************)
EXTENDS Integers, Sequences, FiniteSets, TLC

\* ---------------------------------------------------------------- bounds
MaxQueue == 2
\* longest buffer (in chunks) handed to process_audio on its own
MaxAudioData == 32

\* ------------------------------------------------------ program constants
RATE == 16000
CHUNK_DURATION_MS == 30
PRE_BUFFER_DURATION_MS == 1500
SILENCE_DURATION_MS == 800

CHUNK_SIZE == (RATE * CHUNK_DURATION_MS) \div 1000

\* deque(maxlen=int(PRE_BUFFER_DURATION_SEC * RATE / CHUNK_SIZE))
PreBufferMaxLen == (PRE_BUFFER_DURATION_MS * RATE) \div (1000 * CHUNK_SIZE)

\* ------------------------------------------------------------------ input
\* Run lengths of the sound at the microphone:
\* <<lead non-speech, speech, gap, speech, trailing non-speech>>.
LeadRuns == {0, 1, 50, 51}
SpeechRuns == {1}
GapRuns == {1, 26, 27}
TrailRuns == {28}

Inputs == {<<l, s, g, 1, t>> : l \in LeadRuns, s \in SpeechRuns, g \in GapRuns, t \in TrailRuns}

\* The two scenarios of the specification: 100 non-speech, 40 speech, 30
\* non-speech chunks; and 5 speech chunks followed by 10 non-speech chunks.
Scenarios == {<<100, 40, 30, 0, 0>>, <<0, 5, 10, 0, 0>>}

RECURSIVE SumRuns(_)
SumRuns(r) == IF r = <<>> THEN 0 ELSE Head(r) + SumRuns(Tail(r))

\* TRUE iff chunk c falls into a speech run (the runs at even positions).
RECURSIVE InSpeechRun(_, _, _)
InSpeechRun(r, c, speechRun) ==
    IF r = <<>> THEN FALSE
    ELSE IF c <= Head(r) THEN speechRun
    ELSE InSpeechRun(Tail(r), c - Head(r), ~speechRun)

VARIABLES
    runs,              \* the sound at the microphone (fixed during a run)
    nread,             \* number of successful stream.read calls so far
    audio_queue,       \* self.audio_queue
    cpc,               \* position of audio_reader_thread
    running,           \* self.running
    stream,            \* self.stream: "active", "stopped" or "closed"
    pre_buffer,        \* self.pre_buffer
    recording_buffer,  \* self.recording_buffer
    is_recording,      \* self.is_recording
    silence_chunks,    \* self.silence_chunks
    mpc,               \* position of the main thread
    consumed,          \* history: chunks taken from the queue, in order
    calls,             \* history: calls made to the collaborators and the device
    outcome,           \* how the main thread left run(): "none", "SystemExit", "Exception"
    signals,           \* history: main-thread positions at which SIGINT was delivered
    read_log           \* history: "clean", "failed" (a read has failed), "recovered" (a read succeeded after that)

vars == <<runs, nread, audio_queue, cpc, running, stream, pre_buffer,
          recording_buffer, is_recording, silence_chunks, mpc, consumed,
          calls, outcome, signals, read_log>>

segVars == <<pre_buffer, recording_buffer, is_recording, silence_chunks>>
captureVars == <<nread, audio_queue, cpc, read_log>>

\* ----------------------------------------------------- pure helper code
\* self.vad.is_speech(chunk, self.RATE)
is_speech(chunk) == InSpeechRun(runs, chunk, FALSE)

\* variant: a full deque refuses the new item instead of dropping the oldest
DequeAppend_KeepOldest(d, chunk, maxlen) ==
    IF Len(d) < maxlen THEN Append(d, chunk) ELSE d

\* collections.deque.append with maxlen: drops the oldest item when full
DequeAppend(d, chunk, maxlen) ==
    IF Len(d) < maxlen THEN Append(d, chunk) ELSE Append(Tail(d), chunk)

\* variant: the chunk is not appended to the snapshot
StartRecording_SnapshotOnly(pre, chunk) == pre

\* self.recording_buffer = list(self.pre_buffer); self.recording_buffer.append(chunk)
StartRecording(pre, chunk) == Append(pre, chunk)

\* variant: the chunk is appended twice
ContinueRecording_Twice(buf, chunk) == Append(Append(buf, chunk), chunk)

\* self.recording_buffer.append(chunk)
ContinueRecording(buf, chunk) == Append(buf, chunk)

\* variant: a speech chunk leaves the counter alone
SilenceStep_NoReset(n, speech) == IF speech THEN n ELSE n + 1

\* silence_chunks after a chunk while recording (lines 164-165, 177-178)
SilenceStep(n, speech) == IF speech THEN 0 ELSE n + 1

\* variant: the duration in seconds is computed with integer division
SilenceReached_IntDiv(n) == ((n * CHUNK_DURATION_MS) \div 1000) * 1000 >= SILENCE_DURATION_MS

\* silence_duration >= self.SILENCE_DURATION_SEC, silence_duration = n * CHUNK_DURATION_MS / 1000
SilenceReached(n) == n * CHUNK_DURATION_MS >= SILENCE_DURATION_MS

\* variant: the minimum is 5 s instead of 0.5 s
TooShort_FiveSeconds(buf) == Len(buf) * CHUNK_SIZE < 5 * RATE

\* variant: bytes are counted instead of 16-bit samples
TooShort_Bytes(buf) == 2 * (Len(buf) * CHUNK_SIZE * 2) < RATE

\* len(audio_np) < 0.5 * self.RATE; every chunk holds CHUNK_SIZE samples
TooShort(buf) == 2 * (Len(buf) * CHUNK_SIZE) < RATE

\* variant: the newest item is taken
QueueFront_Newest(q) == q[Len(q)]

\* queue.Queue.put / queue.Queue.get
QueuePut(q, chunk) == Append(q, chunk)
QueueFront(q) == Head(q)
QueueRest(q) == Tail(q)

\* variant: the buffer is not cleared
ResetBuffer_Keep(buf) == buf

\* variant: the counter is not cleared
ResetCounter_Keep(n) == n

\* lines 174-176
ResetBuffer(buf) == <<>>
ResetCounter(n) == 0

NoCalls == [transcribe |-> 0, ydotool |-> 0, xdotool |-> 0, typed |-> 0,
            failed_to_type |-> 0, stop_stream |-> 0, close |-> 0, terminate |-> 0]

Called(what) == [calls EXCEPT ![what] = @ + 1]

TryBody == {"loop", "transcribe", "ydotool", "xdotool"}
CleanupBody == {"cleanup", "sleep", "stop_stream", "close", "terminate"}

\* ------------------------------------------------------------------ Init
StartState ==
    /\ nread = 0
    /\ audio_queue = <<>>
    /\ cpc = "unstarted"
    /\ running = TRUE
    /\ stream = "active"
    /\ pre_buffer = <<>>
    /\ recording_buffer = <<>>
    /\ is_recording = FALSE
    /\ silence_chunks = 0
    /\ mpc = "start"
    /\ consumed = <<>>
    /\ calls = NoCalls
    /\ outcome = "none"
    /\ signals = <<>>
    /\ read_log = "clean"

Init ==
    /\ runs \in Inputs
    /\ StartState

\* --------------------------------------------------- audio_reader_thread
\* run(), lines 134-136: the reader thread is started, then the try block is entered
StartReader ==
    /\ mpc = "start"
    /\ mpc' = "loop"
    /\ cpc' = "check"
    /\ UNCHANGED <<runs, nread, audio_queue, running, stream, segVars, consumed,
                   calls, outcome, signals, read_log>>

\* variant: the loop does not test the flag
ReaderCheck_IgnoresFlag ==
    /\ cpc = "check"
    /\ mpc # "done"
    /\ cpc' = "read"
    /\ UNCHANGED <<runs, nread, audio_queue, running, stream, segVars, mpc,
                   consumed, calls, outcome, signals, read_log>>

\* while self.running:
ReaderCheck ==
    /\ cpc = "check"
    /\ mpc # "done"
    /\ cpc' = IF running THEN "read" ELSE "exited"
    /\ UNCHANGED <<runs, nread, audio_queue, running, stream, segVars, mpc,
                   consumed, calls, outcome, signals, read_log>>

\* variant: the reader thread pushes the chunk into the pre-buffer itself
ReaderReadOk_PreBuffers ==
    /\ cpc = "read"
    /\ mpc # "done"
    /\ stream = "active"
    /\ nread < SumRuns(runs)
    /\ Len(audio_queue) < MaxQueue
    /\ nread' = nread + 1
    /\ audio_queue' = QueuePut(audio_queue, nread + 1)
    /\ pre_buffer' = DequeAppend(pre_buffer, nread + 1, PreBufferMaxLen)
    /\ cpc' = "check"
    /\ read_log' = IF read_log = "clean" THEN "clean" ELSE "recovered"
    /\ UNCHANGED <<runs, running, stream, recording_buffer, is_recording,
                   silence_chunks, mpc, consumed, calls, outcome, signals>>

\* chunk = self.stream.read(...); self.audio_queue.put(chunk)
ReaderReadOk ==
    /\ cpc = "read"
    /\ mpc # "done"
    /\ stream = "active"
    /\ nread < SumRuns(runs)
    /\ Len(audio_queue) < MaxQueue
    /\ nread' = nread + 1
    /\ audio_queue' = QueuePut(audio_queue, nread + 1)
    /\ cpc' = "check"
    /\ read_log' = IF read_log = "clean" THEN "clean" ELSE "recovered"
    /\ UNCHANGED <<runs, running, stream, segVars, mpc, consumed, calls,
                   outcome, signals>>

\* variant: the exception is not caught and ends the thread
ReaderReadFail_Dies ==
    /\ cpc = "read"
    /\ mpc # "done"
    /\ cpc' = "exited"
    /\ read_log' = IF read_log = "clean" THEN "failed" ELSE read_log
    /\ UNCHANGED <<runs, nread, audio_queue, running, stream, segVars, mpc,
                   consumed, calls, outcome, signals>>

\* the read raises; except: pass
ReaderReadFail ==
    /\ cpc = "read"
    /\ mpc # "done"
    /\ cpc' = "check"
    /\ read_log' = IF read_log = "clean" THEN "failed" ELSE read_log
    /\ UNCHANGED <<runs, nread, audio_queue, running, stream, segVars, mpc,
                   consumed, calls, outcome, signals>>

\* ------------------------------------------------------------- main loop
\* process_audio(audio_data) up to the call of self.model.transcribe
\* (lines 83-90): a buffer of less than 0.5 s returns at once
ProcessAudio(audio_data) ==
    IF TooShort(audio_data)
    THEN /\ mpc' = "reset"
         /\ UNCHANGED calls
    ELSE /\ mpc' = "transcribe"
         /\ calls' = Called("transcribe")

\* One iteration of the while loop of run() with a chunk available
\* (lines 139-178), up to the call of process_audio when there is one.
\* An iteration whose queue.get times out (queue.Empty, continue) changes
\* nothing and is a stuttering step.
Tick ==
    /\ mpc = "loop"
    /\ running
    /\ audio_queue # <<>>
    /\ LET chunk == QueueFront(audio_queue)
           speech == is_speech(chunk)
           pre == DequeAppend(pre_buffer, chunk, PreBufferMaxLen)
       IN /\ audio_queue' = QueueRest(audio_queue)
          /\ consumed' = Append(consumed, chunk)
          /\ pre_buffer' = pre
          /\ IF speech /\ ~is_recording
             THEN /\ is_recording' = TRUE
                  /\ recording_buffer' = StartRecording(pre, chunk)
                  /\ silence_chunks' = 0
                  /\ UNCHANGED <<mpc, calls>>
             ELSE IF is_recording
             THEN /\ recording_buffer' = ContinueRecording(recording_buffer, chunk)
                  /\ silence_chunks' = SilenceStep(silence_chunks, speech)
                  /\ UNCHANGED is_recording
                  /\ IF ~speech /\ SilenceReached(SilenceStep(silence_chunks, speech))
                     THEN ProcessAudio(ContinueRecording(recording_buffer, chunk))
                     ELSE UNCHANGED <<mpc, calls>>
             ELSE UNCHANGED <<recording_buffer, is_recording, silence_chunks, mpc, calls>>
    /\ UNCHANGED <<runs, nread, cpc, running, stream, outcome, signals, read_log>>

\* self.model.transcribe returns and full_text is built (lines 90-107);
\* with text, type_text starts with ydotool (line 115)
TranscribeReturns ==
    /\ mpc = "transcribe"
    /\ \E text \in {"", "words"} :
          IF text = ""
          THEN mpc' = "reset" /\ UNCHANGED calls
          ELSE mpc' = "ydotool" /\ calls' = Called("ydotool")
    /\ UNCHANGED <<runs, captureVars, running, stream, segVars, consumed, outcome, signals>>

\* self.model.transcribe (or the iteration over its segments) raises:
\* nothing in process_audio or run catches it, the finally clause runs cleanup
TranscribeRaises ==
    /\ mpc = "transcribe"
    /\ mpc' = "cleanup"
    /\ outcome' = "Exception"
    /\ UNCHANGED <<runs, captureVars, running, stream, segVars, consumed, calls, signals>>

\* subprocess.run(['ydotool', ...], check=True) succeeds; the text is printed (line 117)
YdotoolOk ==
    /\ mpc = "ydotool"
    /\ mpc' = "reset"
    /\ calls' = Called("typed")
    /\ UNCHANGED <<runs, captureVars, running, stream, segVars, consumed, outcome, signals>>

\* it raises; except: falls back to xdotool (line 121)
YdotoolFails ==
    /\ mpc = "ydotool"
    /\ mpc' = "xdotool"
    /\ calls' = Called("xdotool")
    /\ UNCHANGED <<runs, captureVars, running, stream, segVars, consumed, outcome, signals>>

\* subprocess.run(['xdotool', ...], check=True) succeeds; the text is printed (line 123)
XdotoolOk ==
    /\ mpc = "xdotool"
    /\ mpc' = "reset"
    /\ calls' = Called("typed")
    /\ UNCHANGED <<runs, captureVars, running, stream, segVars, consumed, outcome, signals>>

\* variant: the failure of the fallback is not caught
XdotoolFails_Raises ==
    /\ mpc = "xdotool"
    /\ mpc' = "cleanup"
    /\ outcome' = "Exception"
    /\ UNCHANGED <<runs, captureVars, running, stream, segVars, consumed, calls, signals>>

\* it raises too; except: print("Failed to type: ...")
XdotoolFails ==
    /\ mpc = "xdotool"
    /\ mpc' = "reset"
    /\ calls' = Called("failed_to_type")
    /\ UNCHANGED <<runs, captureVars, running, stream, segVars, consumed, outcome, signals>>

\* process_audio has returned: lines 174-176
Reset ==
    /\ mpc = "reset"
    /\ is_recording' = FALSE
    /\ recording_buffer' = ResetBuffer(recording_buffer)
    /\ silence_chunks' = ResetCounter(silence_chunks)
    /\ mpc' = "loop"
    /\ UNCHANGED <<runs, captureVars, running, stream, pre_buffer, consumed, calls,
                   outcome, signals>>

\* ---------------------------------------------------------------- SIGINT
\* main(), line 226: the handler raises SystemExit in the main thread.
\*  - before the try block of run(): the process exits, no finally clause;
\*  - in the try block: the finally clause runs cleanup, except inside
\*    type_text, whose bare except clauses catch SystemExit as a failure
\*    of the tool that was running;
\*  - inside cleanup: cleanup is abandoned where it stands.
Interrupt ==
    /\ mpc \in {"start"} \cup TryBody \cup CleanupBody \cup {"reset"}
    /\ signals' = Append(signals, mpc)
    /\ CASE mpc = "start" ->
              mpc' = "done" /\ outcome' = "SystemExit" /\ UNCHANGED calls
         [] mpc \in {"loop", "transcribe", "reset"} ->
              mpc' = "cleanup" /\ outcome' = "SystemExit" /\ UNCHANGED calls
         [] mpc = "ydotool" ->
              mpc' = "xdotool" /\ calls' = Called("xdotool") /\ UNCHANGED outcome
         [] mpc = "xdotool" ->
              mpc' = "reset" /\ calls' = Called("failed_to_type") /\ UNCHANGED outcome
         [] OTHER ->
              mpc' = "done" /\ outcome' = "SystemExit" /\ UNCHANGED calls
    /\ UNCHANGED <<runs, captureVars, running, stream, segVars, consumed>>

\* --------------------------------------------------------------- cleanup
\* variant: cleanup flushes a recording in progress to the transcription
CleanupFlag_Flush ==
    /\ mpc = "cleanup"
    /\ running' = FALSE
    /\ mpc' = "sleep"
    /\ calls' = IF is_recording THEN Called("transcribe") ELSE calls
    /\ UNCHANGED <<runs, captureVars, stream, segVars, consumed, outcome, signals>>

\* self.running = False
CleanupFlag ==
    /\ mpc = "cleanup"
    /\ running' = FALSE
    /\ mpc' = "sleep"
    /\ UNCHANGED <<runs, captureVars, stream, segVars, consumed, calls, outcome, signals>>

\* time.sleep(0.1) returns
CleanupSleep ==
    /\ mpc = "sleep"
    /\ mpc' = "stop_stream"
    /\ UNCHANGED <<runs, captureVars, running, stream, segVars, consumed, calls, outcome, signals>>

\* self.stream.stop_stream()
StopStream ==
    /\ mpc = "stop_stream"
    /\ stream' = "stopped"
    /\ calls' = Called("stop_stream")
    /\ mpc' = "close"
    /\ UNCHANGED <<runs, captureVars, running, segVars, consumed, outcome, signals>>

\* self.stream.close()
CloseStream ==
    /\ mpc = "close"
    /\ stream' = "closed"
    /\ calls' = Called("close")
    /\ mpc' = "terminate"
    /\ UNCHANGED <<runs, captureVars, running, segVars, consumed, outcome, signals>>

\* self.audio.terminate(); run() is left
Terminate ==
    /\ mpc = "terminate"
    /\ calls' = Called("terminate")
    /\ mpc' = "done"
    /\ UNCHANGED <<runs, captureVars, running, stream, segVars, consumed, outcome, signals>>

Next ==
    \/ StartReader
    \/ ReaderCheck
    \/ ReaderReadOk
    \/ ReaderReadFail
    \/ Tick
    \/ TranscribeReturns
    \/ TranscribeRaises
    \/ YdotoolOk
    \/ YdotoolFails
    \/ XdotoolOk
    \/ XdotoolFails
    \/ Reset
    \/ Interrupt
    \/ CleanupFlag
    \/ CleanupSleep
    \/ StopStream
    \/ CloseStream
    \/ Terminate

Spec == Init /\ [][Next]_vars

\* The same program on the scenarios of the specification.
ScenarioInit ==
    /\ runs \in Scenarios
    /\ StartState

ScenarioSpec == ScenarioInit /\ [][Next]_vars

\* process_audio on its own: called with a buffer of 0..MaxAudioData chunks.
AssemblerInit ==
    /\ runs = <<>>
    /\ nread = 0
    /\ audio_queue = <<>>
    /\ cpc = "unstarted"
    /\ running = TRUE
    /\ stream = "active"
    /\ pre_buffer = <<>>
    /\ \E n \in 0..MaxAudioData : recording_buffer = [i \in 1..n |-> i]
    /\ is_recording = TRUE
    /\ silence_chunks = 0
    /\ mpc = "process"
    /\ consumed = <<>>
    /\ calls = NoCalls
    /\ outcome = "none"
    /\ signals = <<>>
    /\ read_log = "clean"

\* self.process_audio(self.recording_buffer), line 171
CallProcessAudio ==
    /\ mpc = "process"
    /\ ProcessAudio(recording_buffer)
    /\ UNCHANGED <<runs, captureVars, running, stream, segVars, consumed, outcome, signals>>

AssemblerNext ==
    \/ CallProcessAudio
    \/ TranscribeReturns
    \/ TranscribeRaises
    \/ YdotoolOk
    \/ YdotoolFails
    \/ XdotoolOk
    \/ XdotoolFails

AssemblerSpec == AssemblerInit /\ [][AssemblerNext]_vars

\* The reader thread is scheduled again and again, and a device read that
\* was started returns or fails.  Nothing is assumed of the main thread.
ReaderFairness ==
    /\ WF_vars(ReaderCheck)
    /\ WF_vars(ReaderReadOk \/ ReaderReadFail)

FairSpec == Init /\ [][Next]_vars /\ ReaderFairness

TypeOK ==
    /\ runs \in Inputs
    /\ nread \in 0..SumRuns(runs)
    /\ Len(audio_queue) <= MaxQueue
    /\ cpc \in {"unstarted", "check", "read", "exited"}
    /\ running \in BOOLEAN
    /\ stream \in {"active", "stopped", "closed"}
    /\ Len(pre_buffer) <= PreBufferMaxLen
    /\ is_recording \in BOOLEAN
    /\ silence_chunks \in Nat
    /\ mpc \in {"start", "reset", "done"} \cup TryBody \cup CleanupBody
    /\ outcome \in {"none", "SystemExit", "Exception"}
    /\ read_log \in {"clean", "failed", "recovered"}

\* ------------------------------------------------- vocabulary of the claims
\* the last n elements of s
LastN(s, n) == SubSeq(s, Len(s) - n + 1, Len(s))

Min(a, b) == IF a < b THEN a ELSE b

\* the step is one iteration of the main loop that took a chunk from the queue
TickStep == Len(consumed') = Len(consumed) + 1

\* the chunk that iteration took
TickChunk == consumed'[Len(consumed')]

\* the step is an Idle -> Recording transition
OnsetStep == TickStep /\ ~is_recording /\ is_recording'

\* the step hands recording_buffer to process_audio
HandOffStep == mpc = "loop" /\ mpc' \in {"transcribe", "reset"}

\* number of non-speech chunks at the end of s
RECURSIVE TrailingNonSpeech(_)
TrailingNonSpeech(s) ==
    IF s = <<>> \/ is_speech(s[Len(s)]) THEN 0
    ELSE 1 + TrailingNonSpeech(SubSeq(s, 1, Len(s) - 1))

\* length of the run of the input that chunk c lies in
RECURSIVE RunLengthAt(_, _)
RunLengthAt(r, c) ==
    IF r = <<>> THEN 0
    ELSE IF c <= Head(r) THEN Head(r)
    ELSE RunLengthAt(Tail(r), c - Head(r))

Occurrences(s, x) == Cardinality({i \in 1..Len(s) : s[i] = x})

\* ------------------------------------------------------------------ claims

\* C1 (P2, no pre-onset loss): when N >= capacity non-speech chunks are
\* followed by the first speech chunk, the recording buffer right after the
\* Idle -> Recording transition is the last `capacity` non-speech chunks in
\* capture order followed by the speech chunk.
C1_NoPreOnsetLoss ==
    [][ (OnsetStep /\ Len(consumed) >= PreBufferMaxLen
                   /\ \A i \in 1..Len(consumed) : ~is_speech(consumed[i]))
        => recording_buffer' = LastN(consumed, PreBufferMaxLen) \o <<TickChunk>> ]_vars

\* C2: every Idle -> Recording transition yields a recording buffer in which
\* the triggering chunk occurs exactly once, as the last element, preceded by
\* the chunks that immediately preceded it in capture order.
C2_TriggerOnce ==
    [][ OnsetStep
        => /\ recording_buffer'[Len(recording_buffer')] = TickChunk
           /\ Occurrences(recording_buffer', TickChunk) = 1
           /\ recording_buffer' = LastN(consumed', Len(recording_buffer')) ]_vars

\* C3 (P3, finalize timing): while recording, the buffer is handed to
\* process_audio on exactly the chunk that makes the number of consecutive
\* non-speech chunks 27 = ceil(800 ms / 30 ms): not on a shorter run, not later.
C3_FinalizeTiming ==
    /\ (SILENCE_DURATION_MS + CHUNK_DURATION_MS - 1) \div CHUNK_DURATION_MS = 27
    /\ [][ /\ (TickStep /\ is_recording)
              => (HandOffStep <=> TrailingNonSpeech(consumed') = 27)
           /\ HandOffStep => (TickStep /\ is_recording) ]_vars

\* a gap of 26 non-speech chunks was survived and the utterance was handed
\* over on the 27th chunk of the trailing non-speech run
C3_Witness ==
    /\ mpc = "transcribe"
    /\ runs[3] = 26
    /\ TrailingNonSpeech(consumed) = 27
    /\ Len(consumed) = runs[1] + runs[2] + runs[3] + runs[4] + 27

\* C4: an exception of the transcription call is caught and reported without
\* terminating the pipeline: the main loop keeps running with the state reset
\* to Idle, an empty recording buffer and a zero silence counter.
C4_TranscribeFailureContained ==
    [][ (mpc = "transcribe" /\ outcome' = "Exception")
        => /\ mpc' \in {"reset", "loop"}
           /\ running'
           /\ mpc' = "loop" => (~is_recording' /\ recording_buffer' = <<>>
                                 /\ silence_chunks' = 0) ]_vars

\* C5: the chunks taken by the main loop from the queue are a prefix of the
\* chunks successfully read by the capture thread (chunk k is the k-th
\* successful read): same order, none dropped, none duplicated; what is
\* read and not yet taken is in the queue, in order.
C5_QueueFifo ==
    /\ Len(consumed) <= nread
    /\ \A i \in 1..Len(consumed) : consumed[i] = i
    /\ consumed \o audio_queue = [i \in 1..nread |-> i]

\* the capture thread has filled the queue while a transcription is in flight
C5_Witness ==
    /\ mpc = "transcribe"
    /\ Len(audio_queue) = MaxQueue
    /\ nread = Len(consumed) + MaxQueue

\* C6: a tick that starts in Recording appends its chunk to the end of the
\* recording buffer exactly once, speech or not, and leaves the earlier
\* elements alone; no other step but the reset after process_audio changes
\* the recording buffer (pre-buffer pushes and evictions do not reach it).
C6_AppendOnce ==
    [][ /\ (TickStep /\ is_recording)
           => recording_buffer' = recording_buffer \o <<TickChunk>>
        /\ (~TickStep /\ mpc # "reset")
           => recording_buffer' = recording_buffer ]_vars

\* recording, the last chunk appended was non-speech, and the pre-buffer has
\* already evicted chunks that the recording buffer still starts with
C6_Witness ==
    /\ is_recording
    /\ silence_chunks > 0
    /\ Len(pre_buffer) = PreBufferMaxLen
    /\ pre_buffer[1] > recording_buffer[1]
    /\ recording_buffer[Len(recording_buffer)] = consumed[Len(consumed)]

\* C7 (P4, silence reset): while recording, a speech chunk sets the silence
\* counter to 0 whatever it was and a non-speech chunk adds exactly one; so
\* the buffer is never handed over inside a non-speech run of at most 26 chunks.
C7_SilenceReset ==
    [][ /\ (TickStep /\ is_recording /\ is_speech(TickChunk))
           => (silence_chunks' = 0 /\ is_recording' /\ ~HandOffStep)
        /\ (TickStep /\ is_recording /\ ~is_speech(TickChunk))
           => silence_chunks' = silence_chunks + 1
        /\ HandOffStep => RunLengthAt(runs, TickChunk) > 26 ]_vars

\* the speech chunk after a gap of 26 non-speech chunks has just reset the
\* counter, and nothing was handed over in the gap
C7_Witness ==
    /\ is_recording
    /\ silence_chunks = 0
    /\ runs[3] = 26
    /\ Len(consumed) = runs[1] + runs[2] + runs[3] + 1
    /\ calls.transcribe = 0

\* C8 (P6, idempotent reset): when process_audio has returned, the recording
\* buffer is empty, the silence counter 0 and the state Idle before the next
\* chunk is taken; an Idle tick depends on the pre-buffer and the chunk only:
\* speech starts a recording seeded from the current pre-buffer, non-speech
\* changes nothing but the pre-buffer.
C8_IdempotentReset ==
    [][ /\ (mpc = "reset" /\ mpc' = "loop")
           => /\ ~is_recording' /\ recording_buffer' = <<>> /\ silence_chunks' = 0
              /\ consumed' = consumed /\ pre_buffer' = pre_buffer
        /\ (TickStep /\ ~is_recording /\ calls.transcribe > 0)
           => /\ recording_buffer = <<>> /\ silence_chunks = 0
              /\ IF is_speech(TickChunk)
                 THEN /\ is_recording' /\ silence_chunks' = 0
                      /\ recording_buffer' = pre_buffer' \o <<TickChunk>>
                 ELSE /\ ~is_recording' /\ silence_chunks' = 0
                      /\ recording_buffer' = <<>> ]_vars

\* after a finalize whose dispatch returned, the next speech chunk has
\* started a second recording
C8_Witness ==
    /\ calls.transcribe = 1
    /\ mpc = "loop"
    /\ is_recording
    /\ runs[3] = 27
    /\ Len(consumed) = runs[1] + runs[2] + runs[3] + 1

\* C9 (P1, pre-buffer bound): after n chunks processed, in any state, the
\* pre-buffer holds exactly the last min(n, capacity) chunks processed, in
\* capture order, with capacity 50.
C9_PreBufferBound ==
    /\ PreBufferMaxLen = 50
    /\ pre_buffer = LastN(consumed, Min(Len(consumed), 50))

\* the pre-buffer has evicted chunks, during a recording
C9_Witness ==
    /\ Len(consumed) > PreBufferMaxLen + 1
    /\ is_recording
    /\ pre_buffer[1] = Len(consumed) - PreBufferMaxLen + 1

\* C10: when an interrupt signal arrives in the main loop (Idle, recording
\* or transcription in flight), the shutdown flag is set and the release
\* sequence (stop_stream, close, terminate) is executed exactly once on
\* every execution that ends.
C10_ReleaseExactlyOnce ==
    (mpc = "done" /\ signals # <<>> /\ signals[1] \in {"loop", "transcribe"})
    => /\ ~running
       /\ calls.stop_stream = 1
       /\ calls.close = 1
       /\ calls.terminate = 1

Teardown == CleanupBody \cup {"done"}

\* C11: when shutdown occurs while Recording (5 speech chunks, then only 10
\* non-speech chunks), the partial recording buffer is discarded: no call to
\* the transcription engine or to a text-injection tool is made for it, and
\* none is made at or after the start of the teardown sequence.
C11_PartialDiscarded ==
    /\ [][ /\ mpc' \in Teardown
              => /\ calls'.transcribe = calls.transcribe
                 /\ calls'.ydotool = calls.ydotool
                 /\ calls'.xdotool = calls.xdotool
           /\ mpc \in Teardown => mpc' \in Teardown ]_vars
    /\ [](runs = <<0, 5, 10, 0, 0>>
          => calls.transcribe = 0 /\ calls.ydotool = 0 /\ calls.xdotool = 0)

\* the 5 + 10 scenario was interrupted while recording and the teardown has
\* run to its end with the partial buffer still in place
C11_Witness ==
    /\ runs = <<0, 5, 10, 0, 0>>
    /\ mpc = "done"
    /\ calls.terminate = 1
    /\ is_recording
    /\ silence_chunks = 10
    /\ Len(consumed) = 15
    /\ Len(recording_buffer) = 16
    /\ calls.transcribe = 0

\* C12: a failure of text injection is contained: the fallback is attempted
\* only after the primary has failed, a failure of both is reported, the
\* utterance is not retried, and the main loop resets to Idle and goes on.
C12_InjectionFailureContained ==
    /\ [][ /\ calls'.xdotool # calls.xdotool
              => /\ mpc = "ydotool" /\ mpc' = "xdotool"
                 /\ calls'.xdotool = calls.xdotool + 1
                 /\ calls'.typed = calls.typed
           /\ calls'.ydotool # calls.ydotool
              => mpc = "transcribe" /\ calls'.ydotool = calls.ydotool + 1
           /\ mpc \in {"ydotool", "xdotool"}
              => /\ mpc' \in {"ydotool", "xdotool", "reset"}
                 /\ running' /\ outcome' = outcome
           /\ (mpc = "xdotool" /\ mpc' # "xdotool")
              => \/ calls'.typed = calls.typed + 1 /\ calls'.failed_to_type = calls.failed_to_type
                 \/ calls'.typed = calls.typed /\ calls'.failed_to_type = calls.failed_to_type + 1
           /\ (mpc = "reset" /\ mpc' # "reset" /\ Len(signals') = Len(signals))
              => /\ mpc' = "loop" /\ ~is_recording'
                 /\ recording_buffer' = <<>> /\ silence_chunks' = 0 ]_vars
    /\ [](calls.xdotool <= calls.ydotool /\ calls.ydotool <= calls.transcribe)

\* both tools failed on the first utterance, the failure was reported, and
\* the loop has gone on to start the next recording
C12_Witness ==
    /\ calls.failed_to_type = 1
    /\ calls.xdotool = 1
    /\ calls.typed = 0
    /\ signals = <<>>
    /\ mpc = "loop"
    /\ is_recording
    /\ runs[3] = 27
    /\ Len(consumed) = runs[1] + runs[2] + runs[3] + 1

\* C13: a failed device read is swallowed: it enqueues nothing, does not end
\* the capture loop and does not touch the main loop; while the shutdown
\* flag is not set the thread goes on to read again, and every successful
\* read is enqueued.
C13_ReadFailureSwallowed ==
    [][ /\ (cpc = "read" /\ cpc' # "read" /\ nread' = nread)
           => /\ cpc' = "check"
              /\ audio_queue' = audio_queue
              /\ UNCHANGED <<segVars, mpc, running, stream, consumed, calls, outcome>>
        /\ (cpc = "check" /\ running /\ cpc' # cpc) => cpc' = "read"
        /\ nread' # nread
           => /\ nread' = nread + 1
              /\ audio_queue' = Append(audio_queue, nread') ]_vars

\* a read has failed, a later read has succeeded and its chunk is in the queue
C13_Witness ==
    /\ read_log = "recovered"
    /\ running
    /\ mpc = "loop"
    /\ audio_queue # <<>>
    /\ audio_queue[Len(audio_queue)] = nread

\* C14 (P5, short-utterance drop): process_audio calls the transcription
\* engine if and only if the buffer holds at least 0.5 s * 16000 = 8000
\* samples (17 chunks of 480); a shorter buffer returns silently: no
\* transcription, no injection, no error.
C14_ShortUtteranceDrop ==
    /\ CHUNK_SIZE = 480 /\ 16 * 480 < 8000 /\ 17 * 480 >= 8000
    /\ [][ mpc = "process"
           => IF Len(recording_buffer) * 480 >= 8000
              THEN /\ mpc' = "transcribe"
                   /\ calls' = [calls EXCEPT !.transcribe = 1]
              ELSE /\ mpc' = "reset"
                   /\ calls' = NoCalls
                   /\ outcome' = "none" ]_vars

\* a buffer of 16 chunks (7680 samples) has been dropped silently
C14_Witness ==
    /\ mpc = "reset"
    /\ Len(recording_buffer) = 16
    /\ calls = NoCalls
    /\ outcome = "none"

\* C15 (scenario): 100 non-speech, 40 speech, 30 non-speech chunks give
\* exactly one onset, on the first speech chunk (chunk 101), and exactly one
\* finalize, on the 27th trailing non-speech chunk (chunk 167); the buffer
\* handed over has 50 + 40 + 27 = 117 chunks and goes to the transcription;
\* the last 3 chunks leave the state Idle.
C15_Scenario ==
    [][ runs = <<100, 40, 30, 0, 0>>
        => /\ OnsetStep <=> (TickStep /\ TickChunk = 101)
           /\ HandOffStep <=> (TickStep /\ TickChunk = 167)
           /\ HandOffStep
              => /\ Len(recording_buffer') = 117 /\ 50 + 40 + 27 = 117
                 /\ mpc' = "transcribe"
                 /\ calls'.transcribe = 1 /\ calls.transcribe = 0
           /\ (TickStep /\ TickChunk > 167)
              => (~is_recording /\ ~is_recording' /\ recording_buffer' = <<>>) ]_vars

\* the whole scenario has been processed: one transcription, state Idle
C15_Witness ==
    /\ runs = <<100, 40, 30, 0, 0>>
    /\ Len(consumed) = 170
    /\ mpc = "loop"
    /\ ~is_recording
    /\ calls.transcribe = 1

\* what one iteration of the main loop makes of <<pre-buffer, recording
\* buffer, recording?, silence counter>> and a chunk, run on its own
SequentialTick(st, chunk) ==
    LET pre == IF Len(st[1]) < 50 THEN st[1] \o <<chunk>> ELSE Tail(st[1]) \o <<chunk>>
    IN IF is_speech(chunk) /\ ~st[3] THEN <<pre, pre \o <<chunk>>, TRUE, 0>>
       ELSE IF st[3] THEN <<pre, st[2] \o <<chunk>>, TRUE,
                            IF is_speech(chunk) THEN 0 ELSE st[4] + 1>>
       ELSE <<pre, st[2], st[3], st[4]>>

\* C16 (ownership): no step of the capture thread changes the pre-buffer,
\* the recording buffer, the Idle/Recording state or the silence counter;
\* only main-loop steps write them, and each such step is the one a
\* sequential run of the loop makes from the same four values and the same
\* chunk, so the interleaving leaves no trace in them.
C16_Ownership ==
    [][ /\ (cpc' # cpc \/ nread' # nread \/ read_log' # read_log)
           => UNCHANGED segVars
        /\ segVars' # segVars
           => /\ mpc \in {"loop", "reset"}
              /\ UNCHANGED <<cpc, nread, read_log>>
        /\ TickStep => segVars' = SequentialTick(segVars, TickChunk)
        /\ (~TickStep /\ segVars' # segVars)
           => (mpc = "reset" /\ segVars' = <<pre_buffer, <<>>, FALSE, 0>>) ]_vars

\* the capture thread has filled the queue and is reading again while the
\* main loop is in the middle of a recording
C16_Witness ==
    /\ is_recording
    /\ silence_chunks > 0
    /\ mpc = "loop"
    /\ cpc = "read"
    /\ Len(audio_queue) = MaxQueue

\* C17 (cooperative cancellation): once running is False the capture thread
\* eventually leaves its loop (at the latest when the process ends, the
\* thread being a daemon), given that it is scheduled and that a read
\* returns or fails; after the flag is set it completes at most the read
\* that was already past the loop test and starts no new iteration.
C17_CooperativeCancellation ==
    /\ [][ /\ (~running /\ cpc # "read") => (cpc' # "read" /\ nread' = nread)
           /\ (~running /\ cpc = "read") => (cpc' \in {"read", "check"} /\ nread' <= nread + 1)
           /\ cpc = "exited" => cpc' = "exited" ]_vars
    /\ (~running ~> (cpc = "exited" \/ mpc = "done"))

\* the thread has observed the flag and left its loop during the grace delay
C17_Witness ==
    /\ ~running
    /\ cpc = "exited"
    /\ mpc = "sleep"
    /\ stream = "active"

\* C18 (shutdown race): in every interleaving, the capture thread never has
\* a device read on a stream that the main thread has stopped or closed
\* (the device is released only after the capture thread has left its
\* loop): while the stream is stopped or closed the thread is not past its
\* loop test, calling or inside stream.read.
C18_ReleaseAfterReaderExit ==
    stream # "active" => cpc # "read"

\* C19: every buffer handed to process_audio at a finalize holds at least 29
\* chunks (at least one from the pre-buffer, the onset chunk, 27 trailing
\* non-speech chunks), hence at least 8000 samples: every finalize results
\* in a transcription call, none is dropped as too short.
C19_FinalizeNeverTooShort ==
    [][ HandOffStep
        => /\ Len(recording_buffer') >= 29
           /\ Len(recording_buffer') * 480 >= 8000
           /\ TrailingNonSpeech(recording_buffer') = 27
           /\ mpc' = "transcribe"
           /\ calls'.transcribe = calls.transcribe + 1 ]_vars

\* the shortest utterance there is (speech on the very first chunk, one
\* speech chunk only) has been handed to the transcription
C19_Witness ==
    /\ mpc = "transcribe"
    /\ Len(recording_buffer) = 29
    /\ Len(consumed) = 28

\* C20: whenever the main loop is about to take a chunk from the queue, the
\* silence counter is in 0..26; in Idle the recording buffer is empty and
\* the counter 0; in Recording the recording buffer is not empty.
C20_TickBoundaryInvariant ==
    mpc = "loop"
    => /\ silence_chunks \in 0..26
       /\ ~is_recording => (recording_buffer = <<>> /\ silence_chunks = 0)
       /\ is_recording => recording_buffer # <<>>

\* recording, with 26 consecutive non-speech chunks counted
C20_Witness ==
    /\ mpc = "loop"
    /\ is_recording
    /\ silence_chunks = 26
====
